---- MODULE Spec2Model ----
(***************************************************************************)
(* Model of the imagination-tools helpers: the schema-tagged object store  *)
(* client (simpler/storage.go), the Pub/Sub publisher (PublishMessage)     *)
(* and the CloudEvent unwrapper (EventToStruct).                           *)
(*                                                                         *)
(* Every call is synchronous; an action is one whole call.  The record     *)
(* `last` holds the arguments, the outcome and the ordered list of calls   *)
(* made into the wrapped clients by the most recent call.                  *)
(***************************************************************************)
EXTENDS Integers, Sequences, FiniteSets, TLC

VARIABLES store, openStreams, published, last

vars == <<store, openStreams, published, last>>

(***************************************************************************)
(* Bounds of the model.                                                    *)
(***************************************************************************)
MaxOpenStreams == 1
MaxPublished == 2

(***************************************************************************)
(* Bytes.  A text is a sequence of byte values; Ascii gives the code of    *)
(* the characters the modelled texts are made of.                          *)
(***************************************************************************)
Ascii ==
    ("{" :> 123) @@ ("}" :> 125) @@ ("\"" :> 34) @@ (":" :> 58) @@
    ("," :> 44) @@ ("F" :> 70) @@ ("X" :> 88) @@ ("s" :> 115) @@
    ("0" :> 48) @@ ("1" :> 49) @@ ("n" :> 110) @@ ("u" :> 117) @@
    ("l" :> 108) @@ ("x" :> 120)

Txt(cs) == [i \in 1..Len(cs) |-> Ascii[cs[i]]]

(***************************************************************************)
(* The caller's Go value: struct { F *string; X float64 }.  F is <<>> for  *)
(* a nil pointer and <<s>> for a pointer to the string s (a text); X is a  *)
(* finite number or NaN.                                                   *)
(***************************************************************************)
NilPtr == <<>>

PtrTo(s) == <<s>>

Num(n) == [nan |-> FALSE, val |-> n]

NaN == [nan |-> TRUE, val |-> 0]

ZeroValue == [F |-> NilPtr, X |-> Num(0)]

Values == [F : {NilPtr, PtrTo(Txt(<<"s">>))}, X : {Num(0), Num(1), NaN}]

(***************************************************************************)
(* encoding/json, Marshal: a NaN float is an UnsupportedValueError; a nil  *)
(* pointer is written as null, a string quoted, a number as its digit.     *)
(***************************************************************************)
MarshalOK(v) == ~v.X.nan

DigitText(n) == <<Ascii["0"] + n>>

MarshalF(f) ==
    IF f = NilPtr THEN Txt(<<"n", "u", "l", "l">>)
    ELSE Txt(<<"\"">>) \o f[1] \o Txt(<<"\"">>)

Marshal(v) ==
    Txt(<<"{", "\"", "F", "\"", ":">>) \o MarshalF(v.F)
        \o Txt(<<",", "\"", "X", "\"", ":">>) \o DigitText(v.X.val)
        \o Txt(<<"}">>)

(***************************************************************************)
(* encoding/json, Unmarshal into a *struct{F *string; X float64}.          *)
(* Lex splits a text into tokens; an unknown byte makes the text invalid.  *)
(* Tokens: <<"p", byte>> punctuation, <<"s", text>> string, <<"n", digit>> *)
(* number, <<"z">> null.  LexError is the token list of an invalid text.   *)
(***************************************************************************)
LexError == <<<<"!">>>>

IsPunct(b) == b \in {Ascii["{"], Ascii["}"], Ascii[":"], Ascii[","]}

IsDigit(b) == b >= Ascii["0"] /\ b <= Ascii["0"] + 9

RECURSIVE ClosingQuote(_, _)
ClosingQuote(t, i) ==
    IF i > Len(t) THEN 0
    ELSE IF t[i] = Ascii["\""] THEN i
    ELSE ClosingQuote(t, i + 1)

RECURSIVE Lex(_, _)
Lex(t, i) ==
    IF i > Len(t) THEN <<>>
    ELSE IF IsPunct(t[i]) THEN
        LET rest == Lex(t, i + 1)
        IN  IF rest = LexError THEN LexError ELSE <<<<"p", t[i]>>>> \o rest
    ELSE IF IsDigit(t[i]) THEN
        LET rest == Lex(t, i + 1)
        IN  IF rest = LexError THEN LexError
            ELSE <<<<"n", t[i] - Ascii["0"]>>>> \o rest
    ELSE IF t[i] = Ascii["\""] THEN
        LET j == ClosingQuote(t, i + 1)
        IN  IF j = 0 THEN LexError
            ELSE LET rest == Lex(t, j + 1)
                 IN  IF rest = LexError THEN LexError
                     ELSE <<<<"s", SubSeq(t, i + 1, j - 1)>>>> \o rest
    ELSE IF i + 3 <= Len(t) /\ SubSeq(t, i, i + 3) = Txt(<<"n", "u", "l", "l">>) THEN
        LET rest == Lex(t, i + 4)
        IN  IF rest = LexError THEN LexError ELSE <<<<"z">>>> \o rest
    ELSE LexError

P(c) == <<"p", Ascii[c]>>

IsScalar(tok) == tok[1] \in {"s", "n", "z"}

(* members of an object after the opening brace: key : scalar (, ...)* }   *)
RECURSIVE MembersValid(_, _)
MembersValid(toks, i) ==
    /\ i + 3 <= Len(toks)
    /\ toks[i][1] = "s"
    /\ toks[i + 1] = P(":")
    /\ IsScalar(toks[i + 2])
    /\ \/ toks[i + 3] = P("}") /\ i + 3 = Len(toks)
       \/ toks[i + 3] = P(",") /\ MembersValid(toks, i + 4)

SyntaxValid(toks) ==
    /\ toks # LexError
    /\ Len(toks) >= 2
    /\ toks[1] = P("{")
    /\ \/ Len(toks) = 2 /\ toks[2] = P("}")
       \/ MembersValid(toks, 2)

(* one member applied to the destination; a value of the wrong JSON type   *)
(* is an UnmarshalTypeError: the field is skipped and the error reported   *)
(* after the rest of the object has been decoded.                          *)
SetMember(d, key, tok) ==
    IF key = Txt(<<"F">>) THEN
        IF tok[1] = "s" THEN [dest |-> [d.dest EXCEPT !.F = PtrTo(tok[2])], err |-> d.err]
        ELSE IF tok[1] = "z" THEN [dest |-> [d.dest EXCEPT !.F = NilPtr], err |-> d.err]
        ELSE [dest |-> d.dest, err |-> TRUE]
    ELSE IF key = Txt(<<"X">>) THEN
        IF tok[1] = "n" THEN [dest |-> [d.dest EXCEPT !.X = Num(tok[2])], err |-> d.err]
        ELSE IF tok[1] = "z" THEN d
        ELSE [dest |-> d.dest, err |-> TRUE]
    ELSE d

RECURSIVE DecodeMembers(_, _, _)
DecodeMembers(toks, i, d) ==
    IF i + 3 > Len(toks) THEN d
    ELSE DecodeMembers(toks, i + 4, SetMember(d, toks[i][2], toks[i + 2]))

(* Unmarshal(data, &dest): a syntax error leaves dest untouched.           *)
Unmarshal(data, dest) ==
    LET toks == Lex(data, 1)
    IN  IF ~SyntaxValid(toks) THEN [dest |-> dest, err |-> TRUE]
        ELSE DecodeMembers(toks, 2, [dest |-> dest, err |-> FALSE])

(***************************************************************************)
(* The caller's Go type behind a SchemaProvider.  implNamed: the value     *)
(* itself implements avro.NamedSchema, with Name() = ownName.  schemaNamed:*)
(* Schema() returns an avro.NamedSchema (a record), whose Name() is        *)
(* schemaName; otherwise Schema() is the union ["null", record], which has *)
(* no name.  fRequired: the record's field F is "string" (a nil pointer    *)
(* cannot be encoded) rather than ["null", "string"].                      *)
(***************************************************************************)
GoType(implNamed, ownName, schemaNamed, schemaName, fRequired) ==
    [implNamed |-> implNamed, ownName |-> ownName, schemaNamed |-> schemaNamed,
     schemaName |-> schemaName, fRequired |-> fRequired]

Types ==
    { GoType(FALSE, "", TRUE, "A", TRUE),     \* plain struct, record A
      GoType(FALSE, "", TRUE, "", TRUE),      \* plain struct, record with empty name
      GoType(FALSE, "", FALSE, "", TRUE),     \* plain struct, union schema
      GoType(TRUE, "A", TRUE, "A", TRUE),     \* names itself A, record A
      GoType(TRUE, "A", TRUE, "A", FALSE),    \* the same with F nullable
      GoType(TRUE, "B", TRUE, "A", TRUE) }    \* names itself B, record A

(* avro.NewEncoderForSchema(object.Schema(), io.Discard).Encode(object)    *)
EncodeOK(t, v) == ~(t.fRequired /\ v.F = NilPtr)

(***************************************************************************)
(* The bucket.  store[n] is <<>> while object n does not exist and <<o>>   *)
(* once it does; o.metadata is a set of <<key, value>> pairs (empty for a  *)
(* nil map); o.origin is a history field: <<>> for a raw upload, <<t, v>>  *)
(* for an object written by UploadJSONSchematized from value v of type t.  *)
(***************************************************************************)
ObjNames == {"o1"}

schemaRefKey == "schema_ref"

NoMetadata == {}

MetaGet(m, k) ==
    IF \E p \in m : p[1] = k THEN (CHOOSE p \in m : p[1] = k)[2] ELSE ""

Exists(n) == store[n] # <<>>

Obj(n) == store[n][1]

(* what the caller may hand to UploadFile as content                       *)
RawBodies ==
    { Marshal([F |-> PtrTo(Txt(<<"s">>)), X |-> Num(1)]),
      Marshal([F |-> NilPtr, X |-> Num(0)]),
      Txt(<<"{", "}">>),
      Txt(<<"{", "\"", "F", "\"", ":", "1", "}">>),
      Txt(<<"{", "\"", "X", "\"", ":", "1">>),
      Txt(<<"x">>) }

NoCall ==
    [op |-> "none", name |-> "", type |-> <<>>, arg |-> ZeroValue,
     dest |-> ZeroValue, data |-> <<>>, result |-> "ok", events |-> <<>>,
     event |-> <<>>, fail |-> "none"]

Call(op, n, t, arg, dest, data, result, events) ==
    [op |-> op, name |-> n, type |-> t, arg |-> arg, dest |-> dest,
     data |-> data, result |-> result, events |-> events, event |-> <<>>,
     fail |-> "none"]

(* the record of a call during which the wrapped client failed as `fail`   *)
Under(call, fail) == [call EXCEPT !.fail = fail]

Init ==
    /\ store = [n \in ObjNames |-> <<>>]
    /\ openStreams = 0
    /\ published = <<>>
    /\ last = NoCall

(***************************************************************************)
(* upload: NewWriter, io.Copy, Close.  fail is what the store or the       *)
(* content reader does during this call: "copy" (io.Copy returns an        *)
(* error), "close" (Close returns an error) or "none".  The object exists  *)
(* with the new content only once Close has succeeded.  The result is      *)
(* [result, events, obj, leaked]: obj is <<o>> when the object was         *)
(* written, leaked the number of writers still open at return.             *)
(***************************************************************************)
UploadFails == {"none", "copy", "close"}

upload(content, contentType, metadata, origin, fail) ==
    IF fail = "copy" THEN
        [result |-> "error", events |-> <<"NewWriter", "Copy">>,
         obj |-> <<>>, leaked |-> 1]
    ELSE IF fail = "close" THEN
        [result |-> "error", events |-> <<"NewWriter", "Copy", "Close">>,
         obj |-> <<>>, leaked |-> 0]
    ELSE
        [result |-> "ok", events |-> <<"NewWriter", "Copy", "Close">>,
         obj |-> <<[body |-> content, contentType |-> contentType,
                    metadata |-> metadata, origin |-> origin]>>,
         leaked |-> 0]

Commit(n, u) ==
    /\ store' = IF u.obj = <<>> THEN store ELSE [store EXCEPT ![n] = u.obj]
    /\ openStreams' = openStreams + u.leaked

(* UploadFile: upload(ctx, bucket, name, content, "", nil)                 *)
UploadFile(n, content, fail) ==
    /\ fail = "copy" => openStreams < MaxOpenStreams
    /\ LET u == upload(content, "", NoMetadata, <<>>, fail)
       IN  /\ Commit(n, u)
           /\ last' = Under(Call("UploadFile", n, <<>>, ZeroValue, ZeroValue,
                                 content, u.result, u.events), fail)
    /\ UNCHANGED published

(***************************************************************************)
(* UploadJSONSchematized.  The metadata argument is                        *)
(* object.(avro.NamedSchema).Name(): a type assertion on the value itself, *)
(* which panics when the value does not implement avro.NamedSchema.  The   *)
(* arguments are evaluated before upload is entered.                       *)
(***************************************************************************)
(* the validation step left out                                            *)
UploadSkipsValidation(t, v) == TRUE

UploadValidates(t, v) == EncodeOK(t, v)

ObjectIsNamedSchema(t) == t.implNamed

UploadTag(t) == t.ownName

UploadJSONSchematized(n, t, v, fail) ==
    /\ fail = "copy" => openStreams < MaxOpenStreams
    /\ IF ~UploadValidates(t, v) \/ ~MarshalOK(v) THEN
           /\ last' = Under(Call("UploadJSONSchematized", n, t, v, v, <<>>,
                                 "error", <<>>), fail)
           /\ UNCHANGED <<store, openStreams>>
       ELSE IF ~ObjectIsNamedSchema(t) THEN
           /\ last' = Under(Call("UploadJSONSchematized", n, t, v, v,
                                 Marshal(v), "panic", <<>>), fail)
           /\ UNCHANGED <<store, openStreams>>
       ELSE
           LET u == upload(Marshal(v), "application/json",
                           {<<schemaRefKey, UploadTag(t)>>}, <<t, v>>, fail)
           IN  /\ Commit(n, u)
               /\ last' = Under(Call("UploadJSONSchematized", n, t, v, v,
                                     Marshal(v), u.result, u.events), fail)
    /\ UNCHANGED published

(***************************************************************************)
(* readObject: NewReader, defer Close, io.ReadAll.  fail: "open"           *)
(* (NewReader returns an error; also when the object does not exist),      *)
(* "read" (ReadAll returns an error) or "none".                            *)
(***************************************************************************)
ReadFails == {"none", "attrs", "open", "read"}

readObject(n, fail) ==
    IF fail = "open" \/ ~Exists(n) THEN
        [result |-> "error", events |-> <<"NewReader">>, data |-> <<>>]
    ELSE IF fail = "read" THEN
        [result |-> "error", events |-> <<"NewReader", "ReadAll", "Close">>,
         data |-> <<>>]
    ELSE
        [result |-> "ok", events |-> <<"NewReader", "ReadAll", "Close">>,
         data |-> Obj(n).body]

(* DownloadFile                                                            *)
DownloadFile(n, fail) ==
    /\ fail # "attrs"
    /\ LET r == readObject(n, fail)
       IN  last' = Under(Call("DownloadFile", n, <<>>, ZeroValue, ZeroValue,
                              r.data, r.result, r.events), fail)
    /\ UNCHANGED <<store, openStreams, published>>

(***************************************************************************)
(* DownloadJSONSchematized(n, object) with object of type t holding d.     *)
(* A destination whose Schema() is not an avro.NamedSchema leaves ns nil,  *)
(* and building the error message calls ns.Name(): a nil dereference.      *)
(***************************************************************************)
SchemaIsNamed(t) == t.schemaNamed

(* the tag comparison left out                                             *)
TagNotCompared(t, schemaRef) == TRUE

TagMatches(t, schemaRef) == schemaRef = t.schemaName

(* the re-validation after unmarshal left out                              *)
DownloadSkipsValidation(t, v) == TRUE

DownloadValidates(t, v) == EncodeOK(t, v)

Download(n, t, d, fail) ==
    IF fail = "attrs" \/ ~Exists(n) THEN
        Call("DownloadJSONSchematized", n, t, d, d, <<>>, "error", <<"Attrs">>)
    ELSE IF ~SchemaIsNamed(t) THEN
        Call("DownloadJSONSchematized", n, t, d, d, <<>>, "panic", <<"Attrs">>)
    ELSE IF ~TagMatches(t, MetaGet(Obj(n).metadata, schemaRefKey)) THEN
        Call("DownloadJSONSchematized", n, t, d, d, <<>>, "error", <<"Attrs">>)
    ELSE
        LET r == readObject(n, fail)
            ev == <<"Attrs">> \o r.events
            u == Unmarshal(r.data, d)
        IN  IF r.result # "ok" THEN
                Call("DownloadJSONSchematized", n, t, d, d, <<>>, "error", ev)
            ELSE IF u.err THEN
                Call("DownloadJSONSchematized", n, t, d, u.dest, r.data,
                     "error", ev \o <<"Unmarshal">>)
            ELSE IF ~DownloadValidates(t, u.dest) THEN
                Call("DownloadJSONSchematized", n, t, d, u.dest, r.data,
                     "error", ev \o <<"Unmarshal", "Encode">>)
            ELSE
                Call("DownloadJSONSchematized", n, t, d, u.dest, r.data,
                     "ok", ev \o <<"Unmarshal", "Encode">>)

DownloadJSONSchematized(n, t, d, fail) ==
    /\ last' = Under(Download(n, t, d, fail), fail)
    /\ UNCHANGED <<store, openStreams, published>>

(***************************************************************************)
(* PublishMessage(topicID, object).  published is what has been handed to  *)
(* topic.Publish, in order; fail = "get" when result.Get returns an error. *)
(***************************************************************************)
Topics == {"t1", "t2"}

PublishFails == {"none", "get"}

(* the marshal error ignored                                               *)
PublishIgnoringMarshalError(marshalOK) ==
    <<"Topic", "Marshal", "Publish", "Get">>

PublishSteps(marshalOK) ==
    IF marshalOK THEN <<"Topic", "Marshal", "Publish", "Get">>
    ELSE <<"Topic", "Marshal">>

Count(events, e) == Cardinality({i \in 1..Len(events) : events[i] = e})

PublishMessage(topicID, v, fail) ==
    LET ev == PublishSteps(MarshalOK(v))
        sent == Count(ev, "Publish") > 0
    IN  /\ sent => Len(published) < MaxPublished
        /\ published' = IF sent THEN Append(published, <<topicID, Marshal(v)>>)
                        ELSE published
        /\ last' = Under(Call("PublishMessage", topicID, <<>>, v, v,
                              IF sent THEN Marshal(v) ELSE <<>>,
                              IF ~MarshalOK(v) \/ fail = "get" THEN "error"
                              ELSE "ok", ev), fail)
        /\ UNCHANGED <<store, openStreams>>

(***************************************************************************)
(* Base64, standard alphabet with padding: a symbol is its 6-bit value,    *)
(* 0..63, and Pad stands for '='.  B64Decode is what encoding/json does to *)
(* a JSON string decoded into a []byte field; B64Encode is what the event  *)
(* source did to the message bytes.                                        *)
(***************************************************************************)
Pad == 64

RECURSIVE B64Encode(_)
B64Encode(b) ==
    IF Len(b) = 0 THEN <<>>
    ELSE IF Len(b) = 1 THEN
        <<b[1] \div 4, (b[1] % 4) * 16, Pad, Pad>>
    ELSE IF Len(b) = 2 THEN
        <<b[1] \div 4, (b[1] % 4) * 16 + b[2] \div 16, (b[2] % 16) * 4, Pad>>
    ELSE
        <<b[1] \div 4, (b[1] % 4) * 16 + b[2] \div 16,
          (b[2] % 16) * 4 + b[3] \div 64, b[3] % 64>>
            \o B64Encode(SubSeq(b, 4, Len(b)))

B64Error == [ok |-> FALSE, bytes |-> <<>>]

(* Data declared as a string: the field is taken as it is                  *)
DataNotDecoded(s) == [ok |-> TRUE, bytes |-> s]

RECURSIVE B64Decode(_)
B64Decode(s) ==
    IF Len(s) = 0 THEN [ok |-> TRUE, bytes |-> <<>>]
    ELSE IF Len(s) < 4 \/ s[1] = Pad \/ s[2] = Pad THEN B64Error
    ELSE IF s[3] = Pad THEN
        IF Len(s) = 4 /\ s[4] = Pad
        THEN [ok |-> TRUE, bytes |-> <<s[1] * 4 + s[2] \div 16>>]
        ELSE B64Error
    ELSE IF s[4] = Pad THEN
        IF Len(s) = 4
        THEN [ok |-> TRUE,
              bytes |-> <<s[1] * 4 + s[2] \div 16,
                          (s[2] % 16) * 16 + s[3] \div 4>>]
        ELSE B64Error
    ELSE
        LET rest == B64Decode(SubSeq(s, 5, Len(s)))
        IN  IF ~rest.ok THEN B64Error
            ELSE [ok |-> TRUE,
                  bytes |-> <<s[1] * 4 + s[2] \div 16,
                              (s[2] % 16) * 16 + s[3] \div 4,
                              (s[3] % 4) * 64 + s[4]>> \o rest.bytes]

(***************************************************************************)
(* The CloudEvent handed to EventToStruct.  shape is what its data is:     *)
(* "wrapper"   {"message":{"data":"<base64>"}}, data the base64 symbols;   *)
(* "empty"     {} (no message field);                                      *)
(* "datanum"   {"message":{"data":1}};                                     *)
(* "malformed" not JSON at all.                                            *)
(***************************************************************************)
InnerTexts ==
    RawBodies \cup {Marshal(v) : v \in {w \in Values : MarshalOK(w)}}
      \cup { <<>>,
             Txt(<<"{", "\"", "X", "\"", ":", "0", "}">>),
             Txt(<<"{", "\"", "F", "\"", ":", "\"", "s", "\"", "}">>),
             Txt(<<"{", "\"", "X", "\"", ":", "n", "u", "l", "l", "}">>) }

BadBase64 == { <<30>>, <<30, 49, Pad, 30>>, <<Pad, Pad, Pad, Pad>> }

Envelope(shape, data) == [shape |-> shape, data |-> data]

Envelopes ==
    {Envelope("wrapper", B64Encode(b)) : b \in InnerTexts}
      \cup {Envelope("wrapper", s) : s \in BadBase64}
      \cup {Envelope(sh, <<>>) : sh \in {"empty", "datanum", "malformed"}}

(* e.DataAs(&msg): the wrapper decode, base64 included                     *)
DataAs(e) ==
    IF e.shape = "wrapper" THEN
        LET d == B64Decode(e.data)
        IN  [err |-> ~d.ok, data |-> d.bytes]
    ELSE IF e.shape = "empty" THEN [err |-> FALSE, data |-> <<>>]
    ELSE [err |-> TRUE, data |-> <<>>]

(* EventToStruct(e, v), v pointing at a struct holding d                   *)
EventToStruct(e, d) ==
    /\ LET msg == DataAs(e)
           u == Unmarshal(msg.data, d)
       IN  IF msg.err THEN
               last' = [Call("EventToStruct", "", <<>>, d, d, <<>>, "error",
                             <<"DataAs">>) EXCEPT !.event = <<e>>]
           ELSE
               last' = [Call("EventToStruct", "", <<>>, d, u.dest, msg.data,
                             IF u.err THEN "error" ELSE "ok",
                             <<"DataAs", "Unmarshal">>) EXCEPT !.event = <<e>>]
    /\ UNCHANGED <<store, openStreams, published>>

(***************************************************************************)
(* Specifications: one per package.                                        *)
(***************************************************************************)
Next ==
    \/ \E n \in ObjNames, b \in RawBodies, f \in UploadFails :
           UploadFile(n, b, f)
    \/ \E n \in ObjNames, t \in Types, v \in Values, f \in UploadFails :
           UploadJSONSchematized(n, t, v, f)
    \/ \E n \in ObjNames, f \in ReadFails : DownloadFile(n, f)
    \/ \E n \in ObjNames, t \in Types, d \in Values, f \in ReadFails :
           DownloadJSONSchematized(n, t, d, f)

Spec == Init /\ [][Next]_vars

NextPubSub ==
    \E topicID \in Topics, v \in Values, f \in PublishFails :
        PublishMessage(topicID, v, f)

SpecPubSub == Init /\ [][NextPubSub]_vars

NextEcon == \E e \in Envelopes, d \in Values : EventToStruct(e, d)

SpecEcon == Init /\ [][NextEcon]_vars

(***************************************************************************)
(* Properties.                                                             *)
(***************************************************************************)
Made(e) == Count(last.events, e)

Tag(n) == MetaGet(Obj(n).metadata, schemaRefKey)

HasTag(n) == \E p \in Obj(n).metadata : p[1] = schemaRefKey

Before(events, a, b) ==
    \E i, j \in 1..Len(events) : i < j /\ events[i] = a /\ events[j] = b

(* C1: a DownloadJSONSchematized whose destination's schema name differs   *)
(* from the object's schema_ref tag returns an error without opening a     *)
(* reader on the object, whatever the body is.                             *)
C1_Mismatch ==
    /\ last.op = "DownloadJSONSchematized"
    /\ Exists(last.name)
    /\ last.type.schemaNamed
    /\ last.type.schemaName # Tag(last.name)

C1_TagMismatchFailsBeforeRead ==
    C1_Mismatch =>
        /\ last.result = "error"
        /\ Made("NewReader") = 0
        /\ Made("ReadAll") = 0
        /\ Made("Unmarshal") = 0
        /\ last.dest = last.arg

(* a mismatch on an object whose body would have parsed and validated      *)
C1_Witness ==
    /\ C1_Mismatch
    /\ HasTag(last.name)
    /\ last.fail = "none"
    /\ ~Unmarshal(Obj(last.name).body, last.arg).err
    /\ EncodeOK(last.type, Unmarshal(Obj(last.name).body, last.arg).dest)

(* C2: an UploadJSONSchematized of a value that fails the encode against   *)
(* its own schema, or fails json.Marshal, returns an error, opens no       *)
(* writer and leaves every object of the bucket as it was.                 *)
C2_Rejected ==
    /\ last.op = "UploadJSONSchematized"
    /\ ~(EncodeOK(last.type, last.arg) /\ MarshalOK(last.arg))

C2_InvalidValueNeverWritten ==
    [][C2_Rejected' =>
          /\ last'.result = "error"
          /\ last'.events = <<>>
          /\ store' = store
          /\ openStreams' = openStreams]_vars

(* a rejected upload over an object that exists, by a type whose upload    *)
(* of a valid value would have been written                                *)
C2_Witness ==
    /\ C2_Rejected
    /\ ~EncodeOK(last.type, last.arg)
    /\ MarshalOK(last.arg)
    /\ last.type.implNamed
    /\ last.fail = "none"
    /\ last.result = "error"
    /\ Exists(last.name)

(* C3: a value uploaded by UploadJSONSchematized and downloaded, with no   *)
(* write in between, into a fresh destination of the same type comes back  *)
(* equal.                                                                  *)
C3_RoundTrip ==
    (/\ last.op = "DownloadJSONSchematized"
     /\ last.fail = "none"
     /\ Exists(last.name)
     /\ Obj(last.name).origin # <<>>
     /\ Obj(last.name).origin[1] = last.type
     /\ last.arg = ZeroValue)
        => /\ last.result = "ok"
           /\ last.dest = Obj(last.name).origin[2]

(* C4: a DownloadJSONSchematized of an object without a schema_ref entry   *)
(* returns an error before reading and never decodes the body, whatever    *)
(* the destination, one with an empty schema name included.                *)
C4_MissingTagFails ==
    (/\ last.op = "DownloadJSONSchematized"
     /\ Exists(last.name)
     /\ ~HasTag(last.name))
        => /\ last.result = "error"
           /\ Made("NewReader") = 0
           /\ Made("Unmarshal") = 0

(* C5: no call panics; a destination whose Schema() is not a named schema  *)
(* makes DownloadJSONSchematized return an error, and a value that is not  *)
(* itself a named schema makes UploadJSONSchematized return normally.      *)
C5_NoPanic ==
    /\ last.result \in {"ok", "error"}
    /\ (last.op = "DownloadJSONSchematized" /\ Exists(last.name)
          /\ last.fail = "none" /\ ~last.type.schemaNamed)
         => last.result = "error"

(* C6: when the tag matches and the body parses into the destination but   *)
(* the populated value fails the encode against its schema, the download   *)
(* returns an error.                                                       *)
C6_ParsesButInvalid ==
    /\ last.op = "DownloadJSONSchematized"
    /\ Exists(last.name)
    /\ last.type.schemaNamed
    /\ last.type.schemaName = Tag(last.name)
    /\ ~Unmarshal(Obj(last.name).body, last.arg).err
    /\ ~EncodeOK(last.type, Unmarshal(Obj(last.name).body, last.arg).dest)

C6_InvalidAfterUnmarshalFails == C6_ParsesButInvalid => last.result = "error"

(* the body was read and decoded, and the value it gave was refused        *)
C6_Witness ==
    /\ C6_ParsesButInvalid
    /\ last.fail = "none"
    /\ Made("Unmarshal") = 1
    /\ last.dest # last.arg

(* C7: a PublishMessage of a value json.Marshal refuses returns an error   *)
(* and hands nothing to topic.Publish; one that returns success has called *)
(* topic.Publish exactly once, with the marshalled value, and has obtained *)
(* the publish result after it.                                            *)
C7_PublishOnlyAfterMarshal ==
    [][last'.op = "PublishMessage" =>
          /\ ~MarshalOK(last'.arg) =>
                 /\ last'.result = "error"
                 /\ Count(last'.events, "Publish") = 0
                 /\ published' = published
          /\ last'.result = "ok" =>
                 /\ Count(last'.events, "Publish") = 1
                 /\ Before(last'.events, "Publish", "Get")
                 /\ published' =
                        Append(published, <<last'.name, Marshal(last'.arg)>>)]_vars

(* a refused value after a message that went through                       *)
C7_Witness ==
    /\ last.op = "PublishMessage"
    /\ ~MarshalOK(last.arg)
    /\ last.result = "error"
    /\ Len(published) = 1

(* C8: for an envelope whose message.data is the base64 of bytes b,        *)
(* EventToStruct leaves the destination as json.Unmarshal of b leaves it   *)
(* and fails exactly when that fails; an envelope that does not parse as   *)
(* the wrapper (bad base64 included) is an error with no inner decode.     *)
C8_EventDecodesInnerBytes ==
    last.op = "EventToStruct" =>
        LET e == last.event[1]
        IN  /\ \A b \in InnerTexts :
                   (e.shape = "wrapper" /\ e.data = B64Encode(b)) =>
                       /\ last.dest = Unmarshal(b, last.arg).dest
                       /\ (last.result = "error") = Unmarshal(b, last.arg).err
                       /\ last.data = b
            /\ (\/ e.shape \in {"malformed", "datanum"}
                \/ e.shape = "wrapper" /\ e.data \in BadBase64) =>
                   /\ last.result = "error"
                   /\ Made("Unmarshal") = 0
                   /\ last.dest = last.arg

(* an envelope carrying a full object, decoded into a destination that    *)
(* held something else                                                      *)
C8_Witness ==
    /\ last.op = "EventToStruct"
    /\ last.event[1].shape = "wrapper"
    /\ last.event[1].data =
           B64Encode(Marshal([F |-> PtrTo(Txt(<<"s">>)), X |-> Num(1)]))
    /\ last.result = "ok"
    /\ last.arg = ZeroValue
    /\ last.dest = [F |-> PtrTo(Txt(<<"s">>)), X |-> Num(1)]

(* C9: no call returns with a writer or a reader still open.               *)
C9_StreamsReleased == openStreams = 0

(* C10: an object written by UploadJSONSchematized has content type        *)
(* application/json and the single metadata entry schema_ref, holding the  *)
(* name of the value's Schema(); one written by UploadFile has neither.    *)
C10_TagIsSchemaName ==
    /\ (last.op = "UploadJSONSchematized" /\ last.result = "ok") =>
           /\ Obj(last.name).contentType = "application/json"
           /\ last.type.schemaNamed
           /\ Obj(last.name).metadata = {<<schemaRefKey, last.type.schemaName>>}
    /\ (last.op = "UploadFile" /\ last.result = "ok") =>
           /\ Obj(last.name).contentType = ""
           /\ Obj(last.name).metadata = NoMetadata

====
